---- MODULE Spec2Model ----
(***************************************************************************)
(* Model of rio/src/crosswords/square.rs: the terminal grid cell (Square), *)
(* its style flags (Flags), its shared copy-on-write payload               *)
(* (Option<Arc<CellExtra>>), the occupied line length of a row of cells    *)
(* (LineLength) and the reset discriminant (ResetDiscriminant).            *)
(*                                                                         *)
(* Arc<CellExtra> is modelled as a handle into an arena `heap` of payload  *)
(* records that carry the strong count; handle 0 is Option::None.          *)
(* Flags (a u16 bit mask) is modelled as the set of its set bit positions. *)
(***************************************************************************)
EXTENDS Integers, Sequences, FiniteSets, TLC

VARIABLES cells, heap, last

vars == <<cells, heap, last>>

(***************************************************************************)
(* Bounds of the model.                                                    *)
(***************************************************************************)
NumCells == 2
MaxZw == 2
MaxWidth == 3
MaxFlagBits == 2
MaxSetBits == 3

(***************************************************************************)
(* Flags: bitflags! over u16.                                              *)
(***************************************************************************)
FlagsWidth == 16

RECURSIVE Pow2(_)
Pow2(n) == IF n = 0 THEN 1 ELSE 2 * Pow2(n - 1)

\* The set of bit positions set in the literal n of a u16.
BitsOf(n) == {b \in 0..(FlagsWidth - 1) : (n \div Pow2(b)) % 2 = 1}

INVERSE == BitsOf(1)
BOLD == BitsOf(2)
ITALIC == BitsOf(4)
BOLD_ITALIC == BitsOf(6)
UNDERLINE == BitsOf(8)
WRAPLINE == BitsOf(16)
WIDE_CHAR == BitsOf(32)
WIDE_CHAR_SPACER == BitsOf(64)
DIM == BitsOf(128)
DIM_BOLD == BitsOf(130)
HIDDEN == BitsOf(256)
STRIKEOUT == BitsOf(512)
LEADING_WIDE_CHAR_SPACER == BitsOf(1024)
DOUBLE_UNDERLINE == BitsOf(2048)
UNDERCURL == BitsOf(4096)
DOTTED_UNDERLINE == BitsOf(8192)
DASHED_UNDERLINE == BitsOf(16384)

\* The named constants of the bitflags! block, in declaration order.
NamedFlags ==
    << INVERSE, BOLD, ITALIC, BOLD_ITALIC, UNDERLINE, WRAPLINE, WIDE_CHAR,
       WIDE_CHAR_SPACER, DIM, DIM_BOLD, HIDDEN, STRIKEOUT,
       LEADING_WIDE_CHAR_SPACER, DOUBLE_UNDERLINE, UNDERCURL,
       DOTTED_UNDERLINE, DASHED_UNDERLINE >>

\* The constants that are one bit each (all but BOLD_ITALIC and DIM_BOLD).
SingleFlags == {NamedFlags[k] : k \in (DOMAIN NamedFlags) \ {4, 10}}

\* Flags::all(): every bit some named constant sets.
FlagsAll == UNION {NamedFlags[k] : k \in DOMAIN NamedFlags}

FlagsEmpty == {}

FlagsInsert(S, f) == S \cup f

FlagsRemoveBroken(S, f) == S \ (f \cup UNDERLINE)

FlagsRemove(S, f) == S \ f

FlagsContains(S, f) == f \subseteq S

FlagsIntersects(S, f) == S \cap f # {}

(***************************************************************************)
(* Characters and colors (AnsiColor is an external type; the model keeps   *)
(* four of its values).                                                    *)
(***************************************************************************)
SPACE == " "
TAB == "\t"
LetterA == "a"
LetterB == "b"

ColorBlack == "Named(Black)"
ColorForeground == "Named(Foreground)"
ColorRed == "Named(Red)"
ColorBlue == "Named(Blue)"

\* Combining characters (U+0301, U+0308, U+0300, U+0302).  The engine of
\* the model attaches them in this order: the k-th character attached to a
\* cell is ZwText[k], so that the order within a payload is observable.
ZwText == <<"u0301", "u0308", "u0300", "u0302">>

(***************************************************************************)
(* Arc<CellExtra>: the arena of payloads.  A slot with strong = 0 is free. *)
(***************************************************************************)
None == 0

\* CellExtra::default()
CellExtraDefault == [zerowidth |-> <<>>]

FreeSlot == [strong |-> 0, zerowidth |-> <<>>]

\* The address the allocator hands out; which free slot is not observable.
Alloc(hp) == CHOOSE h \in DOMAIN hp :
                 /\ hp[h].strong = 0
                 /\ \A k \in DOMAIN hp : k < h => hp[k].strong # 0

\* Arc::new(extra)
ArcNew(hp, extra) ==
    LET h == Alloc(hp)
    IN  [heap |-> [hp EXCEPT ![h] = [strong |-> 1, zerowidth |-> extra.zerowidth]],
         handle |-> h]

\* <Arc as Clone>::clone
ArcClone(hp, h) == [hp EXCEPT ![h].strong = @ + 1]

\* <Arc as Drop>::drop: the payload is freed with the last owner.
ArcDrop(hp, h) ==
    IF hp[h].strong = 1 THEN [hp EXCEPT ![h] = FreeSlot]
    ELSE [hp EXCEPT ![h].strong = @ - 1]

\* Drop of an Option<Arc<CellExtra>>.
DropExtra(hp, e) == IF e = None THEN hp ELSE ArcDrop(hp, e)

ArcMakeMutInPlace(hp, h) == [heap |-> hp, handle |-> h]

\* Arc::make_mut: the sole owner mutates in place, any other gets a fresh
\* clone of the payload and gives up its share of the old one.
ArcMakeMut(hp, h) ==
    IF hp[h].strong = 1 THEN [heap |-> hp, handle |-> h]
    ELSE LET n == ArcNew(hp, [zerowidth |-> hp[h].zerowidth])
         IN  [heap |-> ArcDrop(n.heap, h), handle |-> n.handle]

\* Arc::strong_count(extra) > 1
Shared(sq, hp) == sq.extra # None /\ hp[sq.extra].strong > 1

(***************************************************************************)
(* Square                                                                  *)
(***************************************************************************)
\* <Square as Default>::default
SquareDefault ==
    [c |-> SPACE, fg |-> ColorForeground, bg |-> ColorBlack,
     extra |-> None, flags |-> FlagsEmpty]

\* Square::zerowidth: Option<&[char]>
zerowidth(sq, hp) ==
    IF sq.extra = None THEN [some |-> FALSE, slice |-> <<>>]
    ELSE [some |-> TRUE, slice |-> hp[sq.extra].zerowidth]

\* The value of a square as #[derive(PartialEq)] compares it: the Arc is
\* compared by the payload it points to.
SquareValue(sq, hp) ==
    [c |-> sq.c, fg |-> sq.fg, bg |-> sq.bg, flags |-> sq.flags,
     extra |-> zerowidth(sq, hp)]

\* <Square as Clone>::clone: the payload is shared, not copied.
SquareClone(sq, hp) ==
    [sq |-> sq,
     heap |-> IF sq.extra = None THEN hp ELSE ArcClone(hp, sq.extra)]

VecPushFront(v, ch) == <<ch>> \o v

\* Vec::push
VecPush(v, ch) == Append(v, ch)

\* Square::push_zerowidth
push_zerowidth(sq, hp, ch) ==
    LET ins == IF sq.extra = None THEN ArcNew(hp, CellExtraDefault)
               ELSE [heap |-> hp, handle |-> sq.extra]
        mm == ArcMakeMut(ins.heap, ins.handle)
    IN  [sq |-> [sq EXCEPT !.extra = mm.handle],
         heap |-> [mm.heap EXCEPT ![mm.handle].zerowidth = VecPush(@, ch)]]

clear_wide_keep(sq, hp) ==
    [sq |-> [sq EXCEPT !.flags = FlagsRemove(@, WIDE_CHAR), !.c = SPACE],
     heap |-> hp]

\* Square::clear_wide
clear_wide(sq, hp) ==
    LET mm == IF sq.extra = None THEN [heap |-> hp, handle |-> None]
              ELSE ArcMakeMut(hp, sq.extra)
    IN  [sq |-> [sq EXCEPT !.flags = FlagsRemove(@, WIDE_CHAR),
                           !.extra = mm.handle,
                           !.c = SPACE],
         heap |-> IF sq.extra = None THEN hp
                  ELSE [mm.heap EXCEPT ![mm.handle].zerowidth = <<>>]]

reset_keep_fg(sq, hp, template) ==
    [sq |-> [SquareDefault EXCEPT !.bg = template.bg, !.fg = sq.fg],
     heap |-> DropExtra(hp, sq.extra)]

reset_copy_template(sq, hp, template) ==
    [sq |-> [template EXCEPT !.extra = None],
     heap |-> DropExtra(hp, sq.extra)]

\* <Square as GridSquare>::reset: the old value (with its share of the
\* payload) is dropped by the assignment.
reset(sq, hp, template) ==
    [sq |-> [SquareDefault EXCEPT !.bg = template.bg],
     heap |-> DropExtra(hp, sq.extra)]

discriminant_fg(sq) == sq.fg

\* <Square as ResetDiscriminant<AnsiColor>>::discriminant
discriminant(sq) == sq.bg

is_empty_space_only(sq, hp) ==
    /\ sq.c = SPACE
    /\ ~FlagsIntersects(sq.flags,
            INVERSE \cup STRIKEOUT \cup WRAPLINE \cup WIDE_CHAR_SPACER
                \cup LEADING_WIDE_CHAR_SPACER)
    /\ ~(zerowidth(sq, hp).some /\ zerowidth(sq, hp).slice # <<>>)

\* <Square as GridSquare>::is_empty
is_empty(sq, hp) ==
    /\ (sq.c = SPACE \/ sq.c = TAB)
    /\ ~FlagsIntersects(sq.flags,
            INVERSE \cup STRIKEOUT \cup WRAPLINE \cup WIDE_CHAR_SPACER
                \cup LEADING_WIDE_CHAR_SPACER)
    /\ ~(zerowidth(sq, hp).some /\ zerowidth(sq, hp).slice # <<>>)

(***************************************************************************)
(* LineLength for Row<Square>                                              *)
(***************************************************************************)
\* self.len() - 1 on usize.  With overflow checks (debug builds) a borrow
\* panics; without them the result wraps to usize::MAX - (1 - len) + 1,
\* kept here as `wrapped`: such an index is past the end of every row.
UsizeSubOne(len, overflow_checks) ==
    IF len >= 1 THEN [panic |-> FALSE, wrapped |-> FALSE, value |-> len - 1]
    ELSE IF overflow_checks THEN [panic |-> TRUE, wrapped |-> FALSE, value |-> 0]
    ELSE [panic |-> FALSE, wrapped |-> TRUE, value |-> 0]

OccupiedCharOnly(sq, hp) == sq.c # SPACE

\* The condition of the scan: the cell holds a non-space character or a
\* payload with attached characters.
Occupied(sq, hp) ==
    \/ sq.c # SPACE
    \/ (zerowidth(sq, hp).some /\ zerowidth(sq, hp).slice # <<>>)

\* for (index, cell) in self[..].iter().rev().enumerate(), from `index` on.
RECURSIVE ScanRev(_, _, _)
ScanRev(row, hp, index) ==
    IF index >= Len(row) THEN 0
    ELSE IF Occupied(row[Len(row) - index], hp) THEN Len(row) - index
    ELSE ScanRev(row, hp, index + 1)

\* <Row<Square> as LineLength>::line_length; Column(k) is row[k + 1].
line_length(row, hp, overflow_checks) ==
    LET idx == UsizeSubOne(Len(row), overflow_checks)
    IN  IF idx.panic \/ idx.wrapped \/ idx.value >= Len(row)
        THEN [panic |-> TRUE, value |-> 0]
        ELSE IF FlagsContains(row[idx.value + 1].flags, WRAPLINE)
        THEN [panic |-> FALSE, value |-> Len(row)]
        ELSE [panic |-> FALSE, value |-> ScanRev(row, hp, 0)]

(***************************************************************************)
(* The grid of the terminal engine: NumCells cells, written field by       *)
(* field, duplicated, and mutated through the methods of Square.           *)
(***************************************************************************)
Range(f) == {f[k] : k \in DOMAIN f}

NoRet == [panic |-> FALSE, value |-> 0]

Did(op, cell, ch, other, shared) ==
    [op |-> op, cell |-> cell, ch |-> ch, other |-> other,
     shared |-> shared, ret |-> NoRet]

\* What the engine writes into the pub fields c, fg, bg and flags.
WriteInputs ==
    << [c |-> LetterA, fg |-> ColorRed, bg |-> ColorBlue,
        flags |-> WIDE_CHAR \cup BOLD] >>

Init ==
    /\ cells = [i \in 1..NumCells |-> SquareDefault]
    /\ heap = [h \in 1..NumCells |-> FreeSlot]
    /\ last = Did("init", 0, "", 0, FALSE)

\* Assignment to the pub fields c, fg, bg, flags of cell i.
Write(i, w) ==
    /\ cells' = [cells EXCEPT ![i] =
                    [@ EXCEPT !.c = WriteInputs[w].c, !.fg = WriteInputs[w].fg,
                              !.bg = WriteInputs[w].bg,
                              !.flags = WriteInputs[w].flags]]
    /\ heap' = heap
    /\ last' = Did("write", i, "", w, Shared(cells[i], heap))

\* cells[j] = cells[i].clone(): the old value of cells[j] is dropped.
Duplicate(i, j) ==
    /\ i # j
    /\ LET cl == SquareClone(cells[i], heap)
       IN  /\ cells' = [cells EXCEPT ![j] = cl.sq]
           /\ heap' = DropExtra(cl.heap, cells[j].extra)
    /\ last' = Did("duplicate", j, "", i, Shared(cells[j], heap))

PushZerowidth(i, ch) ==
    /\ Len(zerowidth(cells[i], heap).slice) < MaxZw
    /\ Len(zerowidth(cells[i], heap).slice) < Len(ZwText)
    /\ ch = ZwText[Len(zerowidth(cells[i], heap).slice) + 1]
    /\ LET r == push_zerowidth(cells[i], heap, ch)
       IN  /\ cells' = [cells EXCEPT ![i] = r.sq]
           /\ heap' = r.heap
    /\ last' = Did("push_zerowidth", i, ch, 0, Shared(cells[i], heap))

ClearWide(i) ==
    /\ LET r == clear_wide(cells[i], heap)
       IN  /\ cells' = [cells EXCEPT ![i] = r.sq]
           /\ heap' = r.heap
    /\ last' = Did("clear_wide", i, "", 0, Shared(cells[i], heap))

\* cells[i].reset(&cells[t]); the borrow rules keep i and t apart.
Reset(i, t) ==
    /\ i # t
    /\ LET r == reset(cells[i], heap, cells[t])
       IN  /\ cells' = [cells EXCEPT ![i] = r.sq]
           /\ heap' = r.heap
    /\ last' = Did("reset", i, "", t, Shared(cells[i], heap))

Next ==
    \/ \E i \in DOMAIN cells, w \in DOMAIN WriteInputs : Write(i, w)
    \/ \E i \in DOMAIN cells, j \in DOMAIN cells : Duplicate(i, j)
    \/ \E i \in DOMAIN cells, ch \in Range(ZwText) : PushZerowidth(i, ch)
    \/ \E i \in DOMAIN cells : ClearWide(i)
    \/ \E i \in DOMAIN cells, t \in DOMAIN cells : Reset(i, t)

Spec == Init /\ [][Next]_vars

\* The strong count of every payload is the number of cells that hold it.
HeapCounts ==
    \A h \in DOMAIN heap :
        heap[h].strong = Cardinality({i \in DOMAIN cells : cells[i].extra = h})

(***************************************************************************)
(* Claims about the cells of the grid (checked under Spec).                *)
(***************************************************************************)
NoZerowidth == [some |-> FALSE, slice |-> <<>>]

\* The fields of a square other than its payload.
Attrs(sq) == [c |-> sq.c, fg |-> sq.fg, bg |-> sq.bg, flags |-> sq.flags]

\* C1: an operation on one cell (duplicate into it, push_zerowidth,
\* clear_wide, reset, field write) leaves zerowidth() of every other cell
\* as it was, also when the two cells share one payload.
C1_CowIsolation ==
    [][\A j \in DOMAIN cells :
          j # last'.cell =>
              zerowidth(cells'[j], heap') = zerowidth(cells[j], heap)]_vars

\* A push has just cloned a payload that another cell still holds: the
\* other cell keeps the shorter sequence.
C1_Witness ==
    /\ last.op = "push_zerowidth"
    /\ last.shared
    /\ \E j \in DOMAIN cells :
          /\ j # last.cell
          /\ zerowidth(cells[j], heap).some
          /\ Len(zerowidth(cells[j], heap).slice) >= 1
          /\ zerowidth(cells[last.cell], heap).slice
                = Append(zerowidth(cells[j], heap).slice, last.ch)

\* C2: after x.reset(t), x is the default cell except that its background
\* is t's background; nothing else of t is copied.
C2_ResetIsDefaultButBg ==
    [][last'.op = "reset" =>
          SquareValue(cells'[last'.cell], heap')
              = [c |-> SPACE, fg |-> ColorForeground,
                 bg |-> cells[last'.other].bg, flags |-> {},
                 extra |-> NoZerowidth]]_vars

\* A reset of a cell that shared its payload, from a template that differs
\* from the default cell in every field.
C2_Witness ==
    /\ last.op = "reset"
    /\ last.shared
    /\ LET t == cells[last.other]
       IN  /\ t.c # SPACE
           /\ t.fg # ColorForeground
           /\ t.bg # ColorBlack
           /\ t.flags # {}
           /\ zerowidth(t, heap).slice # <<>>
           /\ cells[last.cell].bg = t.bg

\* C5: after clear_wide() the character is a space, WIDE_CHAR is absent,
\* the attached characters are gone (not kept), and foreground, background
\* and the other flags are unchanged.
C5_ClearWide ==
    [][last'.op = "clear_wide" =>
          LET old == cells[last'.cell]
              new == cells'[last'.cell]
          IN  /\ new.c = SPACE
              /\ ~FlagsContains(new.flags, WIDE_CHAR)
              /\ zerowidth(new, heap').slice = <<>>
              /\ zerowidth(new, heap').some = zerowidth(old, heap).some
              /\ new.fg = old.fg
              /\ new.bg = old.bg
              /\ new.flags \ WIDE_CHAR = old.flags \ WIDE_CHAR]_vars

\* clear_wide on a wide cell whose payload was shared: the sibling still
\* shows the attached characters the cell had.
C5_Witness ==
    /\ last.op = "clear_wide"
    /\ last.shared
    /\ FlagsContains(cells[last.cell].flags, BOLD)
    /\ cells[last.cell].fg = ColorRed
    /\ zerowidth(cells[last.cell], heap) = [some |-> TRUE, slice |-> <<>>]
    /\ \E j \in DOMAIN cells :
          j # last.cell /\ Len(zerowidth(cells[j], heap).slice) = MaxZw

\* C6: after push_zerowidth(ch), zerowidth() is present and is the former
\* sequence (empty when there was no payload) with ch appended; character,
\* foreground, background and flags are unchanged.
C6_PushAppends ==
    [][last'.op = "push_zerowidth" =>
          LET old == cells[last'.cell]
              new == cells'[last'.cell]
          IN  /\ zerowidth(new, heap').some
              /\ zerowidth(new, heap').slice
                    = Append(zerowidth(old, heap).slice, last'.ch)
              /\ Attrs(new) = Attrs(old)]_vars

\* Two different characters pushed in order.
C6_Witness ==
    /\ last.op = "push_zerowidth"
    /\ last.ch = "u0308"
    /\ zerowidth(cells[last.cell], heap)
          = [some |-> TRUE, slice |-> <<"u0301", "u0308">>]
    /\ cells[last.cell].c = LetterA

\* C8 as claimed: when x.discriminant() equals t's background, x.reset(t)
\* leaves x as it was.
C8_ResetIsNoOpOnMatch ==
    [][(/\ last'.op = "reset"
        /\ discriminant(cells[last'.cell]) = cells[last'.other].bg)
          => SquareValue(cells'[last'.cell], heap')
                = SquareValue(cells[last'.cell], heap)]_vars

\* Every field of x but its background is the default.
DefaultButBg(sq) ==
    /\ sq.c = SPACE
    /\ sq.fg = ColorForeground
    /\ sq.flags = {}
    /\ sq.extra = None

\* C8 amended: when x.discriminant() equals t's background, x.reset(t)
\* keeps the background (the discriminant) and sets every other field to
\* its default; it leaves x as it was exactly when x already was the
\* default cell but for its background.
C8_ResetOnMatch ==
    [][(/\ last'.op = "reset"
        /\ discriminant(cells[last'.cell]) = cells[last'.other].bg)
          => /\ discriminant(cells'[last'.cell])
                    = discriminant(cells[last'.cell])
             /\ DefaultButBg(cells'[last'.cell])
             /\ (SquareValue(cells'[last'.cell], heap')
                    = SquareValue(cells[last'.cell], heap))
                  <=> DefaultButBg(cells[last'.cell])]_vars

\* A reset with a matching discriminant that did change the cell: the
\* template it came from is not a default cell, and the cell now is.
C8_Witness ==
    /\ last.op = "reset"
    /\ last.shared
    /\ discriminant(cells[last.cell]) = ColorBlue
    /\ cells[last.other].bg = ColorBlue
    /\ ~DefaultButBg(cells[last.other])
    /\ DefaultButBg(cells[last.cell])

\* C9: discriminant() is the background whatever the other fields are;
\* push_zerowidth and clear_wide keep it, reset(t) makes it t's background.
C9_Discriminant ==
    [][/\ \A i \in DOMAIN cells : discriminant(cells'[i]) = cells'[i].bg
       /\ last'.op \in {"push_zerowidth", "clear_wide"} =>
              discriminant(cells'[last'.cell]) = discriminant(cells[last'.cell])
       /\ last'.op = "reset" =>
              discriminant(cells'[last'.cell]) = cells[last'.other].bg]_vars

\* A reset has given the cell the background of a template whose
\* foreground is another color, and the discriminant is that background.
C9_Witness ==
    /\ last.op = "reset"
    /\ discriminant(cells[last.cell]) = ColorBlue
    /\ cells[last.other].bg = ColorBlue
    /\ cells[last.other].fg = ColorRed
    /\ cells[last.other].c = LetterA

(***************************************************************************)
(* is_empty as a function of one cell: the cell is drawn from              *)
(* EmptyInputs and is_empty is applied to it.                              *)
(***************************************************************************)
\* Flags values with at most MaxFlagBits bits set.
FlagSets == {S \in SUBSET FlagsAll : Cardinality(S) <= MaxFlagBits}

ZwInputs ==
    {NoZerowidth, [some |-> TRUE, slice |-> <<>>],
     [some |-> TRUE, slice |-> <<"u0301">>]}

EmptyInputs ==
    [c : {SPACE, TAB, LetterA}, fg : {ColorForeground, ColorRed},
     bg : {ColorBlack, ColorBlue}, flags : FlagSets, zw : ZwInputs]

\* The square with the fields of v whose payload, if any, is slot h.
MkSquare(v, h) ==
    [c |-> v.c, fg |-> v.fg, bg |-> v.bg, flags |-> v.flags,
     extra |-> IF v.zw.some THEN h ELSE None]

MkSlot(v) ==
    IF v.zw.some THEN [strong |-> 1, zerowidth |-> v.zw.slice] ELSE FreeSlot

InitEmpty ==
    \E v \in EmptyInputs :
        /\ cells = <<MkSquare(v, 1)>>
        /\ heap = <<MkSlot(v)>>
        /\ last = Did("init", 0, "", 0, FALSE)

IsEmpty(i) ==
    /\ UNCHANGED <<cells, heap>>
    /\ last' = [Did("is_empty", i, "", 0, Shared(cells[i], heap))
                   EXCEPT !.ret = [panic |-> FALSE,
                                   value |-> is_empty(cells[i], heap)]]

NextEmpty == \E i \in DOMAIN cells : IsEmpty(i)

SpecEmpty == InitEmpty /\ [][NextEmpty]_vars

\* The flags is_empty looks at.
EmptyBlockers ==
    {INVERSE, STRIKEOUT, WRAPLINE, WIDE_CHAR_SPACER, LEADING_WIDE_CHAR_SPACER}

\* C3: is_empty() is true exactly when the character is a space or a tab,
\* the flags hold none of INVERSE, STRIKEOUT, WRAPLINE, WIDE_CHAR_SPACER,
\* LEADING_WIDE_CHAR_SPACER, and the payload is absent or has no attached
\* characters; foreground, background and the other flags do not matter.
C3_IsEmpty ==
    last.op = "is_empty" =>
        LET sq == cells[last.cell]
        IN  /\ last.ret.value <=>
                  /\ sq.c \in {SPACE, TAB}
                  /\ \A f \in EmptyBlockers : ~FlagsContains(sq.flags, f)
                  /\ (sq.extra = None \/ heap[sq.extra].zerowidth = <<>>)
            /\ \A col \in {ColorForeground, ColorBlack, ColorRed, ColorBlue} :
                  /\ is_empty([sq EXCEPT !.fg = col], heap) = last.ret.value
                  /\ is_empty([sq EXCEPT !.bg = col], heap) = last.ret.value
            /\ \A k \in DOMAIN NamedFlags :
                  NamedFlags[k] \cap UNION EmptyBlockers = {} =>
                      /\ is_empty([sq EXCEPT !.flags =
                                      FlagsInsert(@, NamedFlags[k])], heap)
                            = last.ret.value
                      /\ is_empty([sq EXCEPT !.flags =
                                      FlagsRemove(@, NamedFlags[k])], heap)
                            = last.ret.value

\* A bold wide tab in color with an allocated but empty payload is empty.
C3_Witness ==
    /\ last.op = "is_empty"
    /\ last.ret.value = TRUE
    /\ cells[last.cell].c = TAB
    /\ cells[last.cell].flags = BOLD \cup WIDE_CHAR
    /\ cells[last.cell].fg = ColorRed
    /\ cells[last.cell].bg = ColorBlue
    /\ zerowidth(cells[last.cell], heap) = [some |-> TRUE, slice |-> <<>>]

(***************************************************************************)
(* line_length as a function of one row: the row is drawn from RowInputs   *)
(* and line_length is applied to it.                                       *)
(***************************************************************************)
LineCellInputs ==
    [c : {SPACE, TAB, LetterA}, fg : {ColorForeground}, bg : {ColorBlack},
     flags : {FlagsEmpty, WRAPLINE, BOLD}, zw : ZwInputs]

Plain(ch) ==
    [c |-> ch, fg |-> ColorForeground, bg |-> ColorBlack,
     flags |-> FlagsEmpty, zw |-> NoZerowidth]

\* The row "ab   ".
RowAB == <<Plain(LetterA), Plain(LetterB), Plain(SPACE), Plain(SPACE), Plain(SPACE)>>

\* Rows of every width up to MaxWidth, the row of no cells included.
RowInputs ==
    UNION {[1..w -> LineCellInputs] : w \in 0..MaxWidth} \cup {RowAB}

InitLine ==
    \E r \in RowInputs :
        /\ cells = [i \in 1..Len(r) |-> MkSquare(r[i], i)]
        /\ heap = [i \in 1..Len(r) |-> MkSlot(r[i])]
        /\ last = Did("init", 0, "", 0, FALSE)

LineLength ==
    /\ UNCHANGED <<cells, heap>>
    /\ \E overflow_checks \in BOOLEAN :
          last' = [Did("line_length", 0, "", 0, FALSE)
                      EXCEPT !.ret = line_length(cells, heap, overflow_checks)]

NextLine == LineLength

SpecLine == InitLine /\ [][NextLine]_vars

Width == Len(cells)

\* The 1-based positions of the cells that hold a non-space character or
\* attached characters.
OccupiedAt ==
    {k \in 1..Width :
        \/ cells[k].c # SPACE
        \/ (cells[k].extra # None /\ heap[cells[k].extra].zerowidth # <<>>)}

SetMax(S) == CHOOSE m \in S : \A k \in S : k <= m

\* C4: on a row of width W >= 1, line_length is W when the last cell has
\* WRAPLINE, else the position of the right-most cell with a non-space
\* character or attached characters, else 0; "ab   " gives 2.
C4_LineLength ==
    (last.op = "line_length" /\ Width >= 1) =>
        /\ ~last.ret.panic
        /\ last.ret.value =
              IF WRAPLINE \subseteq cells[Width].flags THEN Width
              ELSE IF OccupiedAt = {} THEN 0
              ELSE SetMax(OccupiedAt)
        /\ ([i \in 1..Width |-> cells[i].c]
                = <<LetterA, LetterB, SPACE, SPACE, SPACE>>
              /\ \A i \in 1..Width : cells[i].flags = {} /\ cells[i].extra = None)
              => last.ret.value = 2

\* Width 3: WRAPLINE on the first cell is ignored, the second cell is a
\* space with an attached character, the last is a bold space with an
\* allocated empty payload: the length is 2.
C4_Witness ==
    /\ last.op = "line_length"
    /\ Width = 3
    /\ cells[1].flags = WRAPLINE /\ cells[1].c = SPACE
    /\ cells[2].c = SPACE /\ zerowidth(cells[2], heap).slice # <<>>
    /\ cells[3].c = SPACE /\ cells[3].flags = BOLD
    /\ zerowidth(cells[3], heap) = [some |-> TRUE, slice |-> <<>>]
    /\ last.ret = [panic |-> FALSE, value |-> 2]

\* C7: line_length completes on every row, the row of no cells included,
\* and returns a value in [0, W].
C7_LineLengthTotal ==
    last.op = "line_length" =>
        /\ ~last.ret.panic
        /\ last.ret.value \in 0..Width

(***************************************************************************)
(* Flags as a value of its own: the flags of one cell, reached through     *)
(* flags_mut(), with insert and remove of the named constants.             *)
(***************************************************************************)
InitFlags ==
    /\ cells = <<SquareDefault>>
    /\ heap = <<FreeSlot>>
    /\ last = Did("init", 0, "", 0, FALSE)

\* cells[i].flags_mut().insert(NamedFlags[k]); ret keeps the flags before.
\* The model stops inserting at MaxSetBits set bits.
InsertFlag(i, k) ==
    /\ Cardinality(FlagsInsert(cells[i].flags, NamedFlags[k])) <= MaxSetBits
    /\ cells' = [cells EXCEPT ![i].flags = FlagsInsert(@, NamedFlags[k])]
    /\ heap' = heap
    /\ last' = [Did("insert", i, "", k, FALSE)
                   EXCEPT !.ret = [panic |-> FALSE, value |-> cells[i].flags]]

\* cells[i].flags_mut().remove(NamedFlags[k]); a remove that follows the
\* insert of the same flag into the same cell is recorded as
\* "insert_remove", with the flags before the insert.
RemoveFlag(i, k) ==
    /\ cells' = [cells EXCEPT ![i].flags = FlagsRemove(@, NamedFlags[k])]
    /\ heap' = heap
    /\ last' = IF last.op = "insert" /\ last.cell = i /\ last.other = k
               THEN [last EXCEPT !.op = "insert_remove"]
               ELSE Did("remove", i, "", k, FALSE)

NextFlags ==
    \/ \E i \in DOMAIN cells, k \in DOMAIN NamedFlags : InsertFlag(i, k)
    \/ \E i \in DOMAIN cells, k \in DOMAIN NamedFlags : RemoveFlag(i, k)

SpecFlags == InitFlags /\ [][NextFlags]_vars

\* C10: the 15 single flags are one bit each, BOLD_ITALIC = BOLD | ITALIC
\* and DIM_BOLD = DIM | BOLD; inserting a named flag f and then removing it
\* leaves contains(g) as it was for every named flag g with no bit of f.
C10_FlagIndependence ==
    /\ \A f \in SingleFlags : Cardinality(f) = 1
    /\ \A f, g \in SingleFlags : f # g => f \cap g = {}
    /\ BOLD_ITALIC = BOLD \cup ITALIC
    /\ DIM_BOLD = DIM \cup BOLD
    /\ last.op = "insert_remove" =>
          \A g \in DOMAIN NamedFlags :
              NamedFlags[g] \cap NamedFlags[last.other] = {} =>
                  FlagsContains(cells[last.cell].flags, NamedFlags[g])
                      = FlagsContains(last.ret.value, NamedFlags[g])

\* BOLD_ITALIC was inserted into a set that held BOLD and UNDERLINE and
\* removed again: UNDERLINE is still there, BOLD is not.
C10_Witness ==
    /\ last.op = "insert_remove"
    /\ NamedFlags[last.other] = BOLD_ITALIC
    /\ FlagsContains(last.ret.value, BOLD \cup UNDERLINE)
    /\ FlagsContains(cells[last.cell].flags, UNDERLINE)
    /\ ~FlagsContains(cells[last.cell].flags, BOLD)

====
